---- MODULE Spec2Model ----
(***************************************************************************)
(* A model of narwhal.py: a pre-fork HTTP server.  One Supervisor process  *)
(* (HTTPServer.run) forks worker processes up to a desired count; every    *)
(* worker runs the select/accept/handle loop on the listener it inherited. *)
(* Processes interleave at system calls and at the points where Python     *)
(* delivers a signal (between bytecodes), so run() and _start_worker_loop  *)
(* are modelled step by step.                                              *)
(***************************************************************************)
EXTENDS Integers, Sequences, FiniteSets, TLC

\* ------------------------------------------------------------ bounds
MaxWorkers == 2
MaxConns == 2

\* ------------------------------------------------------------ constants
\* conn.recv(512)
RecvSize == 512

Pids == 1..MaxWorkers
ConnIds == 1..MaxConns

\* Byte counts a client may send: nothing but EOF, a short request, and a
\* request longer than one recv().
DataLens == {0, 1, RecvSize + 1}

VARIABLES
    desired_worker_count, \* self._desired_worker_count
    listener,             \* self._listener exists and listens
    workers,              \* self._workers of the Supervisor
    supPc,                \* the Supervisor's position in __init__/run
    forkPid,              \* local pid of _start_worker_loop in the Supervisor
    killIdx,              \* position of the for loop of _kill_workers
    wPc,                  \* each worker's position in its loop
    wWorkers,             \* each worker's copy of self._workers, taken by fork
    wConn,                \* local conn of each worker
    pendingTerm,          \* SIGTERM sent to a worker and not yet delivered
    sigSup,               \* number of SIGTERMs the Supervisor sent to each pid
    sigWrk,               \* number of SIGTERMs worker processes sent to each pid
    backlog,              \* the listener's queue of not yet accepted connections
    conns                 \* the client connections, as the clients see them

vars == <<desired_worker_count, listener, workers, supPc, forkPid, killIdx,
          wPc, wWorkers, wConn, pendingTerm, sigSup, sigWrk, backlog, conns>>

supVars == <<desired_worker_count, listener, workers, supPc, forkPid, killIdx>>
wrkVars == <<wPc, wWorkers, wConn>>
sigVars == <<pendingTerm, sigSup, sigWrk>>
netVars == <<backlog, conns>>


\* ------------------------------------------------------------ pure functions
Min(a, b) == IF a < b THEN a ELSE b

Digit(d) ==
    CASE d = 0 -> "0" [] d = 1 -> "1" [] d = 2 -> "2" [] d = 3 -> "3"
      [] d = 4 -> "4" [] d = 5 -> "5" [] d = 6 -> "6" [] d = 7 -> "7"
      [] d = 8 -> "8" [] d = 9 -> "9"

RECURSIVE IntToStr(_)
\* f'{n}' for a natural number n
IntToStr(n) == IF n < 10 THEN Digit(n) ELSE IntToStr(n \div 10) \o Digit(n % 10)

response_text == "<html><body>Hello!</body></html>"

ContentLength == Len(response_text)

\* variant: the Content-Length is taken from the request read
ResponseEcho(data) ==
    "HTTP/1.1 200 OK\r\n" \o "Content-Length: " \o IntToStr(data) \o "\r\n"
        \o "Content-Type: text/html\r\n" \o "Connection: close\r\n" \o "\r\n"
        \o response_text
\* the bytes _handle_request writes; data is what recv returned (unused)
Response(data) ==
    "HTTP/1.1 200 OK\r\n" \o "Content-Length: " \o IntToStr(ContentLength) \o "\r\n"
        \o "Content-Type: text/html\r\n" \o "Connection: close\r\n" \o "\r\n"
        \o response_text

\* ------------------------------------------------------------ helpers
Alive(w) == wPc[w] \notin {"unborn", "dead"}
Born == {w \in Pids : wPc[w] # "unborn"}
LiveWorkers == {w \in Pids : Alive(w)}
SupRunning == supPc \in {"loop", "forked", "kill"}
Tracked == {workers[i] : i \in 1..Len(workers)}

\* The worker states of the design: WAITING, ACCEPTING, HANDLING.
WState(w) ==
    CASE wPc[w] = "select" -> "WAITING"
      [] wPc[w] = "accept" -> "ACCEPTING"
      [] wPc[w] = "recv" -> "HANDLING"
      [] OTHER -> wPc[w]

\* A process that ends closes its descriptors: the connection it held is
\* closed without a (further) response.
DropConn(w) ==
    IF wConn[w] = 0 THEN conns
    ELSE [conns EXCEPT ![wConn[w]].st = "reset", ![wConn[w]].tx = <<>>]

\* ------------------------------------------------------------ initial state
Init ==
    /\ desired_worker_count \in 1..MaxWorkers
    /\ listener = FALSE
    /\ workers = <<>>
    /\ supPc = "init"
    /\ forkPid = 0
    /\ killIdx = 0
    /\ wPc = [w \in Pids |-> "unborn"]
    /\ wWorkers = [w \in Pids |-> <<>>]
    /\ wConn = [w \in Pids |-> 0]
    /\ pendingTerm = [w \in Pids |-> FALSE]
    /\ sigSup = [w \in Pids |-> 0]
    /\ sigWrk = [w \in Pids |-> 0]
    /\ backlog = <<>>
    /\ conns = [c \in ConnIds |-> [st |-> "none", tx |-> <<>>, out |-> "", nresp |-> 0, nacc |-> 0]]

\* ------------------------------------------------------------ Supervisor
\* variant: a failing listener creation is swallowed and run() starts all the same
CreateSocketSwallowed ==
    /\ supPc = "init"
    /\ \E ok \in BOOLEAN :
        /\ listener' = ok
        /\ supPc' = "loop"
    /\ UNCHANGED <<desired_worker_count, workers, forkPid, killIdx>>
    /\ UNCHANGED <<wrkVars, sigVars, netVars>>

\* __init__: self._workers = [], then the listener is created; a failing
\* socket(), bind() or listen() raises out of the constructor.
CreateSocket ==
    /\ supPc = "init"
    /\ \E ok \in BOOLEAN :
        IF ok THEN /\ listener' = TRUE
                   /\ supPc' = "loop"
              ELSE /\ listener' = FALSE
                   /\ supPc' = "raised"
    /\ UNCHANGED <<desired_worker_count, workers, forkPid, killIdx>>
    /\ UNCHANGED <<wrkVars, sigVars, netVars>>

\* The pid fork() hands out: no pid of a child that was never waited for is
\* reused, so every fork returns a fresh one.
NextPid == Cardinality(Born) + 1

\* variant: the top-up test counts the live workers
TopUpNeededLive == Cardinality(LiveWorkers) < desired_worker_count
\* variant: the top-up test is off by one
TopUpNeededOffByOne == Len(workers) <= desired_worker_count
\* the condition of the inner while loop of run()
TopUpNeeded == Len(workers) < desired_worker_count

\* variant: run() handles a failing fork like an exit request
StartWorkerLoopForkHandled ==
    /\ supPc = "loop"
    /\ TopUpNeeded
    /\ NextPid \in Pids
    /\ \E ok \in BOOLEAN :
        IF ok THEN /\ wPc' = [wPc EXCEPT ![NextPid] = "select"]
                   /\ wWorkers' = [wWorkers EXCEPT ![NextPid] = workers]
                   /\ forkPid' = NextPid
                   /\ supPc' = "forked"
                   /\ killIdx' = killIdx
              ELSE /\ supPc' = "kill"
                   /\ killIdx' = 1
                   /\ UNCHANGED <<wPc, wWorkers, forkPid>>
    /\ UNCHANGED <<desired_worker_count, listener, workers, wConn>>
    /\ UNCHANGED <<sigVars, netVars>>

\* run(), inner loop taken: _start_worker_loop calls os.fork().  The child
\* starts in the select loop with a copy of the parent's memory; the parent
\* holds the pid in a local.  A failing fork raises OSError out of run().
StartWorkerLoopFork ==
    /\ supPc = "loop"
    /\ TopUpNeeded
    /\ NextPid \in Pids
    /\ \E ok \in BOOLEAN :
        IF ok THEN /\ wPc' = [wPc EXCEPT ![NextPid] = "select"]
                   /\ wWorkers' = [wWorkers EXCEPT ![NextPid] = workers]
                   /\ forkPid' = NextPid
                   /\ supPc' = "forked"
              ELSE /\ supPc' = "raised"
                   /\ UNCHANGED <<wPc, wWorkers, forkPid>>
    /\ UNCHANGED <<desired_worker_count, listener, workers, killIdx, wConn>>
    /\ UNCHANGED <<sigVars, netVars>>

\* _start_worker_loop in the parent (pid != 0): self._workers.append(pid)
StartWorkerLoopAppend ==
    /\ supPc = "forked"
    /\ workers' = Append(workers, forkPid)
    /\ forkPid' = 0
    /\ supPc' = "loop"
    /\ UNCHANGED <<desired_worker_count, listener, killIdx>>
    /\ UNCHANGED <<wrkVars, sigVars, netVars>>

\* What KeyboardInterrupt or SystemExit does to the Supervisor: inside the try
\* of run() the except clause starts _kill_workers; inside the except clause the
\* exception leaves run().
SupRaise ==
    /\ forkPid' = 0
    /\ IF supPc \in {"loop", "forked"}
         THEN supPc' = "kill" /\ killIdx' = 1
         ELSE supPc' = "raised" /\ killIdx' = killIdx
    /\ UNCHANGED <<desired_worker_count, listener, workers>>
    /\ UNCHANGED <<wrkVars, sigVars, netVars>>

\* SIGINT: Python's default handler raises KeyboardInterrupt between two
\* bytecodes of the main thread.
SupKeyboardInterrupt ==
    /\ SupRunning
    /\ SupRaise

\* an exit request: SystemExit raised in the Supervisor
SupSystemExit ==
    /\ SupRunning
    /\ SupRaise

\* SIGTERM: no handler is installed, the default action ends the process.
SupSigterm ==
    /\ SupRunning
    /\ supPc' = "terminated"
    /\ forkPid' = 0
    /\ UNCHANGED <<desired_worker_count, listener, workers, killIdx>>
    /\ UNCHANGED <<wrkVars, sigVars, netVars>>

\* os.kill(pid, signal.SIGTERM): the signal is pending for a live process; a
\* process that ended and was not waited for still takes the call.
Kill(pid) == [pendingTerm EXCEPT ![pid] = Alive(pid)]

\* one iteration of the for loop of _kill_workers
KillWorkersStep ==
    /\ supPc = "kill"
    /\ killIdx <= Len(workers)
    /\ pendingTerm' = Kill(workers[killIdx])
    /\ sigSup' = [sigSup EXCEPT ![workers[killIdx]] = @ + 1]
    /\ killIdx' = killIdx + 1
    /\ UNCHANGED <<desired_worker_count, listener, workers, supPc, forkPid>>
    /\ UNCHANGED <<wrkVars, sigWrk, netVars>>

\* variant: _kill_workers returns after its first iteration
KillWorkersReturnEarly ==
    /\ supPc = "kill"
    /\ killIdx > Min(1, Len(workers))
    /\ supPc' = "done"
    /\ UNCHANGED <<desired_worker_count, listener, workers, forkPid, killIdx>>
    /\ UNCHANGED <<wrkVars, sigVars, netVars>>

\* the for loop is over: _kill_workers returns and so does run()
KillWorkersReturn ==
    /\ supPc = "kill"
    /\ killIdx > Len(workers)
    /\ supPc' = "done"
    /\ UNCHANGED <<desired_worker_count, listener, workers, forkPid, killIdx>>
    /\ UNCHANGED <<wrkVars, sigVars, netVars>>

SupStep ==
    \/ CreateSocket
    \/ StartWorkerLoopFork
    \/ StartWorkerLoopAppend
    \/ KillWorkersStep
    \/ KillWorkersReturn

\* ------------------------------------------------------------ workers
\* variant: the worker calls accept() without waiting for the listener
SelectReadyNoWait(w) ==
    /\ wPc[w] = "select"
    /\ wPc' = [wPc EXCEPT ![w] = "accept"]
    /\ UNCHANGED <<wWorkers, wConn>>
    /\ UNCHANGED <<supVars, sigVars, netVars>>

\* variant: the listener is polled only while no worker handles a connection
SelectReadyExclusive(w) ==
    /\ wPc[w] = "select"
    /\ backlog # <<>>
    /\ \A v \in Pids : wPc[v] # "recv"
    /\ wPc' = [wPc EXCEPT ![w] = "accept"]
    /\ UNCHANGED <<wWorkers, wConn>>
    /\ UNCHANGED <<supVars, sigVars, netVars>>

\* select.select([self._listener], [], [], 1.0) reports the listener readable.
\* (A timeout leaves the worker where it is: a stuttering step.)
SelectReady(w) ==
    /\ wPc[w] = "select"
    /\ backlog # <<>>
    /\ wPc' = [wPc EXCEPT ![w] = "accept"]
    /\ UNCHANGED <<wWorkers, wConn>>
    /\ UNCHANGED <<supVars, sigVars, netVars>>

\* variant: EAGAIN is re-raised like any other socket error
AcceptRaiseEagain(w) ==
    /\ wPc[w] = "accept"
    /\ IF backlog # <<>>
         THEN /\ backlog' = Tail(backlog)
              /\ conns' = [conns EXCEPT ![Head(backlog)].st = "open",
                                        ![Head(backlog)].nacc = @ + 1]
              /\ wConn' = [wConn EXCEPT ![w] = Head(backlog)]
              /\ wPc' = [wPc EXCEPT ![w] = "recv"]
         ELSE /\ wPc' = [wPc EXCEPT ![w] = "dead"]
              /\ UNCHANGED <<backlog, conns, wConn>>
    /\ UNCHANGED wWorkers
    /\ UNCHANGED <<supVars, sigVars>>

\* variant: the listener is blocking, accept() waits for a connection
AcceptBlocking(w) ==
    /\ wPc[w] = "accept"
    /\ backlog # <<>>
    /\ backlog' = Tail(backlog)
    /\ conns' = [conns EXCEPT ![Head(backlog)].st = "open",
                              ![Head(backlog)].nacc = @ + 1]
    /\ wConn' = [wConn EXCEPT ![w] = Head(backlog)]
    /\ wPc' = [wPc EXCEPT ![w] = "recv"]
    /\ UNCHANGED wWorkers
    /\ UNCHANGED <<supVars, sigVars>>

\* self._listener.accept() on the non-blocking listener: the head of the queue
\* when there is one, else EAGAIN, which the except clause swallows.
Accept(w) ==
    /\ wPc[w] = "accept"
    /\ IF backlog # <<>>
         THEN /\ backlog' = Tail(backlog)
              /\ conns' = [conns EXCEPT ![Head(backlog)].st = "open",
                                        ![Head(backlog)].nacc = @ + 1]
              /\ wConn' = [wConn EXCEPT ![w] = Head(backlog)]
              /\ wPc' = [wPc EXCEPT ![w] = "recv"]
         ELSE /\ wPc' = [wPc EXCEPT ![w] = "select"]
              /\ UNCHANGED <<backlog, conns, wConn>>
    /\ UNCHANGED wWorkers
    /\ UNCHANGED <<supVars, sigVars>>

\* data = conn.recv(512): at most 512 of the bytes the client sent
RecvData(c) == Min(conns[c].tx[1], RecvSize)

\* variant: the child serves one connection, returns from _start_worker_loop
\* and is back in the top-up loop of run(), where it forks and appends like
\* the parent
HandleRequestReturns(w) ==
    /\ wPc[w] = "recv"
    /\ conns[wConn[w]].tx # <<>>
    /\ conns' = [conns EXCEPT ![wConn[w]].out = @ \o Response(RecvData(wConn[w])),
                              ![wConn[w]].nresp = @ + 1,
                              ![wConn[w]].st = "closed",
                              ![wConn[w]].tx = <<>>]
    /\ wConn' = [wConn EXCEPT ![w] = 0]
    /\ IF Len(wWorkers[w]) < desired_worker_count /\ NextPid \in Pids
         THEN /\ wPc' = [wPc EXCEPT ![w] = "select", ![NextPid] = "select"]
              /\ wWorkers' = [wWorkers EXCEPT ![NextPid] = wWorkers[w],
                                              ![w] = Append(@, NextPid)]
         ELSE /\ wPc' = [wPc EXCEPT ![w] = "select"]
              /\ UNCHANGED wWorkers
    /\ UNCHANGED backlog
    /\ UNCHANGED <<supVars, sigVars>>

\* variant: the handler answers and returns without conn.close()
HandleRequestNoClose(w) ==
    /\ wPc[w] = "recv"
    /\ conns[wConn[w]].tx # <<>>
    /\ conns' = [conns EXCEPT ![wConn[w]].out = @ \o Response(RecvData(wConn[w])),
                              ![wConn[w]].nresp = @ + 1,
                              ![wConn[w]].tx = <<>>]
    /\ wConn' = [wConn EXCEPT ![w] = 0]
    /\ wPc' = [wPc EXCEPT ![w] = "select"]
    /\ UNCHANGED <<wWorkers, backlog>>
    /\ UNCHANGED <<supVars, sigVars>>

\* variant: the handler answers and keeps the connection open for another request
HandleRequestKeepAlive(w) ==
    /\ wPc[w] = "recv"
    /\ conns[wConn[w]].tx # <<>>
    /\ conns' = [conns EXCEPT ![wConn[w]].out = @ \o Response(RecvData(wConn[w])),
                              ![wConn[w]].nresp = @ + 1,
                              ![wConn[w]].tx = <<>>]
    /\ UNCHANGED <<wPc, wConn, wWorkers, backlog>>
    /\ UNCHANGED <<supVars, sigVars>>

\* variant: the worker keeps its reference to the connection after the handler
HandleRequestLeak(w) ==
    /\ wPc[w] = "recv"
    /\ conns[wConn[w]].tx # <<>>
    /\ conns' = [conns EXCEPT ![wConn[w]].out = @ \o Response(RecvData(wConn[w])),
                              ![wConn[w]].nresp = @ + 1,
                              ![wConn[w]].st = "closed",
                              ![wConn[w]].tx = <<>>]
    /\ wPc' = [wPc EXCEPT ![w] = "select"]
    /\ UNCHANGED <<wConn, wWorkers, backlog>>
    /\ UNCHANGED <<supVars, sigVars>>

\* _handle_request: conn.setblocking(1); data = conn.recv(512) returns once the
\* client has sent bytes or closed its side; then conn.sendall(response),
\* conn.close(), and the worker is back at the top of its loop.
HandleRequest(w) ==
    /\ wPc[w] = "recv"
    /\ conns[wConn[w]].tx # <<>>
    /\ conns' = [conns EXCEPT ![wConn[w]].out = @ \o Response(RecvData(wConn[w])),
                              ![wConn[w]].nresp = @ + 1,
                              ![wConn[w]].st = "closed",
                              ![wConn[w]].tx = <<>>]
    /\ wConn' = [wConn EXCEPT ![w] = 0]
    /\ wPc' = [wPc EXCEPT ![w] = "select"]
    /\ UNCHANGED <<wWorkers, backlog>>
    /\ UNCHANGED <<supVars, sigVars>>

\* The worker's process ends: its descriptors are closed.
WorkerExit(w) ==
    /\ wPc' = [wPc EXCEPT ![w] = "dead"]
    /\ conns' = DropConn(w)
    /\ wConn' = [wConn EXCEPT ![w] = 0]
    /\ UNCHANGED <<wWorkers, backlog>>

\* variant: the socket error is handled like an interrupt, by _kill_workers on
\* the child's copy of self._workers
SocketErrorKills(w) ==
    /\ \/ wPc[w] = "accept" /\ backlog # <<>>
       \/ wPc[w] = "recv"
    /\ WorkerExit(w)
    /\ pendingTerm' = [p \in Pids |->
          IF p \in {wWorkers[w][i] : i \in 1..Len(wWorkers[w])}
            THEN Alive(p) ELSE pendingTerm[p]]
    /\ sigWrk' = [p \in Pids |->
          IF p \in {wWorkers[w][i] : i \in 1..Len(wWorkers[w])}
            THEN sigWrk[p] + 1 ELSE sigWrk[p]]
    /\ UNCHANGED <<supVars, sigSup>>

\* accept, recv or sendall raises a socket.error whose errno is not EAGAIN
\* (too many open files, connection reset, broken pipe): raise e leaves run().
SocketError(w) ==
    /\ \/ wPc[w] = "accept" /\ backlog # <<>>
       \/ wPc[w] = "recv"
    /\ WorkerExit(w)
    /\ UNCHANGED <<supVars, sigVars>>

\* SIGTERM reaches a worker: the default action ends the process.
WorkerSigterm(w) ==
    /\ Alive(w)
    /\ pendingTerm[w]
    /\ WorkerExit(w)
    /\ pendingTerm' = [pendingTerm EXCEPT ![w] = FALSE]
    /\ UNCHANGED <<supVars, sigSup, sigWrk>>

\* SIGINT reaches a worker: KeyboardInterrupt is raised inside the worker loop,
\* which runs inside the try of run(); the except clause runs _kill_workers on
\* the child's copy of self._workers, then run() returns and the child exits.
WorkerKeyboardInterrupt(w) ==
    /\ Alive(w)
    /\ WorkerExit(w)
    /\ pendingTerm' = [p \in Pids |->
          IF p = w THEN FALSE
          ELSE IF p \in {wWorkers[w][i] : i \in 1..Len(wWorkers[w])}
                 THEN Alive(p) ELSE pendingTerm[p]]
    /\ sigWrk' = [p \in Pids |->
          IF p \in {wWorkers[w][i] : i \in 1..Len(wWorkers[w])}
            THEN sigWrk[p] + 1 ELSE sigWrk[p]]
    /\ UNCHANGED <<supVars, sigSup>>

WorkerStep(w) ==
    \/ SelectReady(w)
    \/ Accept(w)
    \/ HandleRequest(w)

\* ------------------------------------------------------------ clients
\* The listener takes connections as long as a process holds it open.
ListenerOpen ==
    listener /\ (supPc \in {"loop", "forked", "kill"} \/ LiveWorkers # {})

\* A client connects: the kernel queues the connection on the listener.
Connect(c) ==
    /\ ListenerOpen
    /\ conns[c].st = "none"
    /\ \A d \in ConnIds : d < c => conns[d].st # "none"
    /\ conns' = [conns EXCEPT ![c].st = "backlog"]
    /\ backlog' = Append(backlog, c)
    /\ UNCHANGED <<supVars, wrkVars, sigVars>>

\* A client sends n bytes (n = 0: it closes its sending side without data).
\* Bytes sent to a connection still in the queue wait for the worker's recv:
\* for the server that client is one that sends right after the accept.
ClientSend(c, n) ==
    /\ conns[c].st = "open"
    /\ conns[c].tx = <<>>
    /\ conns' = [conns EXCEPT ![c].tx = <<n>>]
    /\ UNCHANGED <<backlog, supVars, wrkVars, sigVars>>

\* ------------------------------------------------------------ specification
Next ==
    \/ SupStep
    \/ SupKeyboardInterrupt
    \/ SupSystemExit
    \/ SupSigterm
    \/ \E w \in Pids : WorkerStep(w)
    \/ \E w \in Pids : SocketError(w)
    \/ \E w \in Pids : WorkerSigterm(w)
    \/ \E w \in Pids : WorkerKeyboardInterrupt(w)
    \/ \E c \in ConnIds : Connect(c)
    \/ \E c \in ConnIds, n \in DataLens : ClientSend(c, n)

Spec == Init /\ [][Next]_vars

\* The scheduler runs every process that can take a step, and a pending signal
\* is delivered; clients, signals from outside and errors are under no obligation.
FairSpec ==
    /\ Spec
    /\ WF_vars(SupStep)
    /\ \A w \in Pids : WF_vars(WorkerStep(w))
    /\ \A w \in Pids : WF_vars(WorkerSigterm(w))

\* ------------------------------------------------------------ claims
SupStopped == supPc \in {"kill", "done", "raised", "terminated"}

\* The tracked pids are distinct, each is a child this Supervisor forked, and
\* each of them entered the worker loop with the listener open.
TrackedAreWorkers ==
    /\ \A i, j \in 1..Len(workers) : workers[i] = workers[j] => i = j
    /\ Tracked \subseteq Born
    /\ Tracked # {} => listener

\* C1: the top-up loop never tracks more than worker_count pids, the tracked
\* pids are distinct forked workers, and unless a signal or a failing fork or
\* listener creation stops the Supervisor the count reaches worker_count and
\* stays there.
C1_TopUp ==
    /\ [](Len(workers) <= desired_worker_count /\ TrackedAreWorkers)
    /\ <>[](Len(workers) = desired_worker_count \/ SupStopped)

\* all worker_count workers are tracked and run the worker loop
C1_Witness ==
    /\ desired_worker_count = MaxWorkers
    /\ Len(workers) = desired_worker_count
    /\ supPc = "loop"
    /\ \A w \in Tracked : Alive(w)

\* ---- C2
\* While _kill_workers runs, exactly the tracked pids before the loop position
\* have been sent SIGTERM by the Supervisor, and its next step never waits for
\* a worker; when run() has returned, every tracked pid has been sent one.
C2_State ==
    /\ supPc = "kill" =>
         /\ \A i \in 1..Len(workers) :
               sigSup[workers[i]] = (IF i < killIdx THEN 1 ELSE 0)
         /\ ENABLED (KillWorkersStep \/ KillWorkersReturn)
    /\ supPc = "done" => \A w \in Tracked : sigSup[w] = 1

\* C2: a KeyboardInterrupt or SystemExit that arrives anywhere in the top-up
\* loop starts _kill_workers on the pids tracked at that moment; the Supervisor
\* sends SIGTERM to each of them without waiting for a worker, and then run()
\* returns (unless a further signal hits the Supervisor during the cleanup).
C2_Shutdown ==
    /\ []C2_State
    /\ [][/\ (supPc \in {"loop", "forked"} /\ (SupKeyboardInterrupt \/ SupSystemExit))
               => (supPc' = "kill" /\ killIdx' = 1 /\ workers' = workers)
          /\ supPc = "kill" => workers' = workers]_vars
    /\ []<>(supPc # "kill")
    /\ [][supPc = "kill" => supPc' \in {"kill", "done", "raised", "terminated"}]_vars

\* run() has returned, every tracked pid was signalled, and a worker still runs
C2_Witness ==
    /\ supPc = "done"
    /\ Len(workers) = MaxWorkers
    /\ \A w \in Tracked : sigSup[w] = 1
    /\ \E w \in Tracked : Alive(w)

\* ---- C3
\* C3: when SIGTERM has ended the Supervisor, every tracked worker pid has
\* been sent SIGTERM by it.
C3_SigtermShutdown ==
    supPc = "terminated" => \A w \in Tracked : sigSup[w] >= 1

\* ---- C4
Holders(c) == {w \in Pids : wConn[w] = c}

\* C4: a connection is accepted by at most one worker; an accept that finds the
\* queue empty (another worker took the connection) leaves its worker alive in
\* WAITING without a connection and changes nothing else, and an accept that
\* finds a connection gives it to that worker alone.
C4_AcceptRace ==
    /\ [](\A c \in ConnIds : conns[c].nacc <= 1 /\ Cardinality(Holders(c)) <= 1)
    /\ [][\A w \in Pids : Accept(w) =>
            IF backlog = <<>>
              THEN /\ WState(w)' = "WAITING"
                   /\ wConn'[w] = 0
                   /\ conns' = conns
                   /\ \A v \in Pids \ {w} : wPc'[v] = wPc[v]
              ELSE /\ WState(w)' = "HANDLING"
                   /\ {v \in Pids : wConn'[v] = Head(backlog)} = {w}
                   /\ conns'[Head(backlog)].nacc = 1
                   /\ backlog' = Tail(backlog)]_vars

\* two workers saw the listener ready for one connection: one has accepted it,
\* the other is in accept() on the empty queue
C4_Witness ==
    \E w, v \in Pids :
        /\ w # v
        /\ wPc[w] = "recv" /\ conns[wConn[w]].nacc = 1
        /\ wPc[v] = "accept" /\ backlog = <<>>

\* ---- C5
CannedResponse ==
    "HTTP/1.1 200 OK\r\nContent-Length: 32\r\nContent-Type: text/html\r\nConnection: close\r\n\r\n<html><body>Hello!</body></html>"

C5_State ==
    \A c \in ConnIds :
        /\ conns[c].nacc <= 1
        /\ conns[c].nresp <= 1
        /\ Cardinality(Holders(c)) <= 1
        /\ conns[c].st = "open" => Cardinality(Holders(c)) = 1 /\ conns[c].nresp = 0
        /\ conns[c].nresp = 1 => conns[c].st = "closed"
        /\ conns[c].st = "closed" =>
              /\ conns[c].nacc = 1 /\ conns[c].nresp = 1
              /\ conns[c].out = CannedResponse
              /\ Holders(c) = {}
        /\ conns[c].st \in {"none", "backlog"} => conns[c].nacc = 0 /\ conns[c].out = ""
        /\ conns[c].st = "reset" => (\E w \in Pids : wPc[w] = "dead")

\* C5: every connection is accepted by at most one worker and answered at most
\* once; the answer is the whole canned response and the server closes the
\* connection with it; and a connection whose client has sent its request is
\* answered and closed unless its worker is ended first.
C5_Concurrent ==
    /\ []C5_State
    /\ []<>(\A c \in ConnIds : conns[c].tx = <<>>)
    /\ [][\A c \in ConnIds : (conns[c].tx # <<>> /\ conns'[c].tx = <<>>)
                                 => conns'[c].st \in {"closed", "reset"}]_vars

\* the second connection is answered and closed while the first, accepted by
\* another worker, is still being handled; nothing has failed
C5_Witness ==
    /\ (\A w \in Pids : wPc[w] # "dead") /\ ~SupStopped
    /\ conns[2].st = "closed" /\ conns[2].out = CannedResponse
    /\ conns[1].st = "open" /\ Holders(1) # {}

\* ---- C6
\* worker w sits in recv on a connection whose client has sent nothing
Silent(w) == wPc[w] = "recv" /\ conns[wConn[w]].tx = <<>>
\* worker v has work at hand: a readable listener, an accept to make, or a
\* request to answer
HasWork(v) ==
    \/ wPc[v] = "select" /\ backlog # <<>>
    \/ wPc[v] = "accept"
    \/ wPc[v] = "recv" /\ conns[wConn[v]].tx # <<>>
Free(v) == wPc[v] \in {"select", "accept"}

C6_State ==
    \A w \in Pids : Silent(w) =>
        /\ ~ENABLED WorkerStep(w)
        /\ \A v \in Pids \ {w} : HasWork(v) => ENABLED WorkerStep(v)

\* C6: a silent client blocks the worker that accepted it and no other: every
\* other worker with work at hand can take its step, and a connection does not
\* stay in the queue while a worker is blocked by a silent client and another
\* worker is free.
C6_SilentClient ==
    /\ []C6_State
    /\ []<>(~((\E w \in Pids : Silent(w)) /\ (\E v \in Pids : Free(v))
                 /\ backlog # <<>>))

\* one worker is blocked by a silent client while another has accepted and
\* answered a connection that arrived later
C6_Witness ==
    \E w \in Pids :
        /\ Silent(w) /\ wConn[w] = 1
        /\ conns[2].st = "closed" /\ conns[2].nresp = 1

\* ---- C7
Answered == {c \in ConnIds : conns[c].nresp >= 1}

\* C7 as stated: every response is the fixed byte sequence whose Content-Length
\* is 34, and the body has length 34.
C7_Length34 ==
    \A c \in Answered :
        /\ conns[c].out =
             "HTTP/1.1 200 OK\r\nContent-Length: 34\r\nContent-Type: text/html\r\nConnection: close\r\n\r\n<html><body>Hello!</body></html>"
        /\ Len(response_text) = 34

\* C7 amended: whatever the client sent (nothing, a short request, more than
\* 512 bytes), the response is the same fixed byte sequence; its Content-Length
\* header says 32, which is the length of the body.
C7_Length32 ==
    /\ [](\A c \in Answered : conns[c].out = CannedResponse)
    /\ [](Len(response_text) = 32 /\ IntToStr(ContentLength) = "32")
    /\ [][\A w \in Pids : \A n \in DataLens :
            (HandleRequest(w) /\ conns[wConn[w]].tx = <<n>>)
              => conns'[wConn[w]].out = CannedResponse]_vars

\* one connection has its response while the handler of another is about to
\* read a request of more than 512 bytes
C7_Witness ==
    \E c, d \in ConnIds :
        /\ conns[c].nresp = 1 /\ conns[c].out = CannedResponse
        /\ conns[d].st = "open" /\ conns[d].tx = <<RecvSize + 1>>

\* ---- C8
\* C8: every completed cycle yields the same response; the steps of a cycle
\* change nothing of the Supervisor, of the tracked workers or of other
\* workers; the accept takes from the listener's queue only the connection the
\* client put there; and when the cycle ends its worker is in WAITING and holds
\* no connection, as before the cycle.
C8_Idempotent ==
    /\ [](\A c, d \in Answered : conns[c].out = conns[d].out)
    /\ [](\A w \in Pids : WState(w) \in {"WAITING", "ACCEPTING"} => wConn[w] = 0)
    /\ [][\A w \in Pids : WorkerStep(w) =>
            /\ UNCHANGED <<supVars, wWorkers, sigVars>>
            /\ \A v \in Pids \ {w} : wPc'[v] = wPc[v] /\ wConn'[v] = wConn[v]
            /\ Accept(w) => backlog' = (IF backlog = <<>> THEN backlog ELSE Tail(backlog))
            /\ ~Accept(w) => backlog' = backlog
            /\ HandleRequest(w) => WState(w)' = "WAITING" /\ wConn'[w] = 0]_vars

\* one worker has completed two cycles and is back in WAITING with an empty
\* queue
C8_Witness ==
    /\ desired_worker_count = 1
    /\ conns[1].nresp = 1 /\ conns[2].nresp = 1
    /\ conns[1].out = conns[2].out
    /\ WState(1) = "WAITING" /\ wConn[1] = 0
    /\ backlog = <<>>

C10_Replaced ==
    [](((\E w \in Born : ~Alive(w)) /\ supPc = "loop")
          => <>(Cardinality(LiveWorkers) = desired_worker_count \/ SupStopped))

\* ---- C11
\* the constructor failed: no listener, the exception left __init__
InitFailed == supPc = "raised" /\ ~listener

\* C11: without a listener no worker is ever forked and no connection is ever
\* queued or accepted; a failed creation of the listener leaves the Supervisor
\* where the exception put it, with no second attempt.
C11_ListenerFailure ==
    /\ [](~listener =>
            /\ Born = {} /\ workers = <<>>
            /\ backlog = <<>>
            /\ \A c \in ConnIds : conns[c].st = "none" /\ conns[c].nacc = 0)
    /\ [](~listener => supPc \in {"init", "raised"})
    /\ [][InitFailed => (supPc' = "raised" /\ ~listener')]_vars

\* the creation of the listener has failed
C11_Witness == InitFailed /\ Born = {} /\ ~ENABLED Next

\* ---- C12
\* the exception of a failing fork left run(): the listener exists and the
\* except clauses were never entered
ForkFailed == supPc = "raised" /\ listener /\ killIdx = 0

\* C12: a fork that fails adds no record and no process and leaves run()
\* without entering _kill_workers; after it the Supervisor forks nothing, tracks
\* nothing more and sends no signal.
C12_ForkFailure ==
    /\ [][(StartWorkerLoopFork /\ Born' = Born) =>
             (supPc' = "raised" /\ workers' = workers /\ killIdx' = 0
                /\ sigSup' = sigSup /\ pendingTerm' = pendingTerm)]_vars
    /\ [][ForkFailed =>
             (ForkFailed' /\ Born' = Born /\ workers' = workers /\ sigSup' = sigSup)]_vars
    /\ [](ForkFailed => \A w \in Pids : sigSup[w] = 0)

\* the second fork failed: the first worker is tracked, alive and unsignalled
C12_Witness ==
    /\ ForkFailed
    /\ workers = <<1>> /\ Alive(1) /\ ~pendingTerm[1]
    /\ Cardinality(Born) = 1

\* ---- C13
\* C13: a socket error other than EAGAIN ends the worker it happens in and
\* nothing else: the Supervisor, the signals, the queue, the other workers and
\* the other connections are as before; an ended worker never runs again; and
\* every live worker with work at hand can take its step.
C13_WorkerError ==
    /\ [][\A w \in Pids : SocketError(w) =>
            /\ wPc'[w] = "dead"
            /\ UNCHANGED <<supVars, sigVars, backlog>>
            /\ \A v \in Pids \ {w} : wPc'[v] = wPc[v] /\ wConn'[v] = wConn[v]
            /\ \A c \in ConnIds \ {wConn[w]} : conns'[c] = conns[c]]_vars
    /\ [][\A w \in Pids : wPc[w] = "dead" => wPc'[w] = "dead"]_vars
    /\ [](\A v \in Pids : HasWork(v) => ENABLED WorkerStep(v))

\* the second worker died of a socket error while it held the first connection
\* (no signal was sent to it, and it sent none); the first worker handles the
\* second connection and the Supervisor runs on
C13_Witness ==
    /\ wPc[2] = "dead" /\ sigSup[2] = 0 /\ sigWrk[2] = 0 /\ sigWrk[1] = 0
    /\ conns[1].st = "reset"
    /\ wPc[1] = "recv" /\ wConn[1] = 2
    /\ supPc = "loop" /\ workers = <<1, 2>>

\* ---- C14
\* the except clause of run() was entered and the Supervisor has left run()
ShutDown == killIdx >= 1 /\ supPc \in {"done", "raised"}

\* C14: in every run that is shut down, whatever exceptions arrive on the way,
\* the Supervisor has sent SIGTERM to each tracked pid once: not zero times
\* and not twice.
C14_ExactlyOnce ==
    ShutDown => \A w \in Tracked : sigSup[w] = 1

\* ---- C17
\* C17: no worker process ever sends a signal to a worker.
C17_OnlySupervisorSignals ==
    \A p \in Pids : sigWrk[p] = 0

\* ---- C18
\* C18: whenever the Supervisor is in its shutdown path or has returned from
\* it, every process it forked is in its tracked collection.
C18_AllForkedTracked ==
    supPc \in {"kill", "done"} => Born \subseteq Tracked

\* ---- C15
\* the transitions of worker w in one step
WorkerCycle(w) ==
    /\ wPc[w] = "unborn" => wPc'[w] \in {"unborn", "select"}
    /\ WState(w) = "WAITING" =>
          /\ WState(w)' \in {"WAITING", "ACCEPTING", "dead"}
          /\ WState(w)' = "ACCEPTING" => backlog # <<>>
    /\ WState(w) = "ACCEPTING" =>
          /\ WState(w)' \in {"ACCEPTING", "HANDLING", "WAITING", "dead"}
          /\ WState(w)' = "HANDLING" =>
                /\ backlog # <<>>
                /\ wConn'[w] = Head(backlog)
                /\ conns'[Head(backlog)].st = "open"
          /\ WState(w)' = "WAITING" => backlog = <<>> /\ wConn'[w] = 0
    /\ WState(w) = "HANDLING" =>
          /\ WState(w)' \in {"HANDLING", "WAITING", "dead"}
          /\ WState(w)' = "WAITING" =>
                /\ conns'[wConn[w]].st = "closed"
                /\ conns'[wConn[w]].nresp = conns[wConn[w]].nresp + 1
    /\ wPc[w] = "dead" => wPc'[w] = "dead"
    /\ (Alive(w) /\ wPc'[w] = "dead") =>
          \/ WorkerSigterm(w)
          \/ WorkerKeyboardInterrupt(w)
          \/ SocketError(w)

\* C15: every step of a worker is a transition of the cycle WAITING ->
\* ACCEPTING -> HANDLING -> WAITING: accept is attempted only when the listener
\* was ready, HANDLING follows only a successful accept, an accept that would
\* block leads back to WAITING, a completed handler leads back to WAITING, and
\* a worker ends only by a signal or by a socket error other than EAGAIN; a
\* worker in ACCEPTING can always take its step.
C15_WorkerCycle ==
    /\ [][\A w \in Pids : WorkerCycle(w)]_vars
    /\ [](\A w \in Pids : WState(w) = "ACCEPTING" => ENABLED Accept(w))

\* the single worker is back in WAITING after a completed cycle: it has
\* answered the first connection and the second waits in the queue
C15_Witness ==
    /\ desired_worker_count = 1
    /\ WState(1) = "WAITING" /\ wConn[1] = 0
    /\ conns[1].st = "closed" /\ conns[1].nresp = 1
    /\ backlog = <<2>>
    /\ sigSup[1] = 0 /\ sigWrk[1] = 0

\* ---- C16
C16_State ==
    /\ \A w \in Pids :
          /\ wConn[w] \in ConnIds \cup {0}
          /\ WState(w) = "HANDLING" <=> wConn[w] # 0
          /\ wConn[w] # 0 => conns[wConn[w]].st = "open"
    /\ \A c \in ConnIds :
          /\ conns[c].st = "open" <=> Cardinality(Holders(c)) = 1
          /\ conns[c].st # "open" => Holders(c) = {}

\* C16: a worker holds a connection exactly while it is in HANDLING, so at most
\* one and never during WAITING or ACCEPTING; an accepted connection that is not
\* closed is held by exactly one worker; and when a worker goes from HANDLING
\* back to WAITING, or ends, the connection it held is closed.
C16_OneConnection ==
    /\ []C16_State
    /\ [][\A w \in Pids : (wConn[w] # 0 /\ wConn'[w] # wConn[w]) =>
            /\ wConn'[w] = 0
            /\ conns'[wConn[w]].st \in {"closed", "reset"}
            /\ wPc'[w] \in {"select", "dead"}]_vars

\* both workers are in HANDLING, each with a connection of its own
C16_Witness ==
    /\ WState(1) = "HANDLING" /\ WState(2) = "HANDLING"
    /\ wConn[1] # wConn[2]
    /\ conns[wConn[1]].st = "open" /\ conns[wConn[2]].st = "open"

\* ---- C19
\* C19: the number of processes ever forked is at most worker_count; a process
\* comes into being only by the Supervisor's fork in the top-up loop, one at a
\* time; and a child's copy of the tracked list never changes.
C19_OnlySupervisorForks ==
    /\ [](Cardinality(Born) <= desired_worker_count)
    /\ [][Born' # Born =>
            /\ supPc = "loop" /\ supPc' = "forked"
            /\ TopUpNeeded
            /\ Cardinality(Born') = Cardinality(Born) + 1]_vars
    /\ [][\A w \in Pids : wPc[w] # "unborn" => wWorkers'[w] = wWorkers[w]]_vars
    /\ [](\A w \in Pids : Len(wWorkers[w]) < desired_worker_count)

\* all worker_count workers were forked and tracked; one is back in WAITING,
\* another is in HANDLING, and no further process was forked
C19_Witness ==
    /\ desired_worker_count = MaxWorkers
    /\ Cardinality(Born) = MaxWorkers
    /\ supPc = "loop" /\ Len(workers) = MaxWorkers
    /\ \E w, v \in Pids : WState(w) = "HANDLING" /\ WState(v) = "WAITING"
    /\ backlog = <<>>

\* ---- C20
\* C20: a worker in WAITING sees a pending connection, a worker in ACCEPTING
\* can make its accept, a connection leaves the queue only into the hands of a
\* worker in HANDLING, and under fair scheduling the queue does not stay
\* non-empty while a live worker is not in HANDLING.
C20_QueueLiveness ==
    /\ [](\A w \in Pids : (WState(w) = "WAITING" /\ backlog # <<>>) => ENABLED SelectReady(w))
    /\ [][backlog # <<>> /\ backlog' # backlog /\ Len(backlog') <= Len(backlog) =>
            /\ backlog' = Tail(backlog)
            /\ \E w \in Pids : Free(w) /\ WState(w)' = "HANDLING" /\ wConn'[w] = Head(backlog)]_vars
    /\ []<>(backlog = <<>> \/ \A v \in Pids : ~Free(v))

\* a connection arrived while one worker was blocked in HANDLING by a silent
\* client; the other worker has accepted it
C20_Witness ==
    \E w, v \in Pids :
        /\ Silent(w) /\ wConn[w] = 1
        /\ WState(v) = "HANDLING" /\ wConn[v] = 2
        /\ backlog = <<>>

====
